---- MODULE Spec2Model ----
(***************************************************************************)
(* Kid Cosmo: the MAVLink bridge (mavlink_bridge.py), the reasoning agent  *)
(* (reasoning_agent.py), the two decision loops (sovereign_pilot.py,       *)
(* somatic_sub.py) and the two vehicle simulators that feed them.          *)
(*                                                                         *)
(* Time is counted in ticks of 0.1 s (the loops' time.sleep(0.1)); every   *)
(* duration of the source is written in ticks.  Angles are in milliradians,*)
(* altitudes in centimetres, voltages in volts/10, so that the source's    *)
(* round(x, 3) and round(x, 2) are exact.                                  *)
(***************************************************************************)
EXTENDS Integers, Sequences, FiniteSets, TLC

\* ------------------------------------------------------------------ bounds
\* time.time() when the processes start: far past 0, the initial value of
\* last_heartbeat and last_decision_time
Epoch == 1000
\* the last tick of a run of the fixed-wing/rover loop, of the underwater
\* loop and of the free bridge client (after Epoch)
PilotHorizon == 460
SubHorizon == 560
BridgeHorizon == 62
FreeHorizon == 62
\* the longest time one call of the inference backend takes, in ticks
MaxLatency == 40
\* by how much the simulators' clock reading is ahead of the tick of the
\* broadcast (time.sleep(1.0) returns a little late), at most
MaxDrift == 1
\* messages the free bridge client's transport buffers, and commands it sends
MaxQueue == 1
MaxSent == 1
\* messages that reach the free bridge client's transport in a run
MaxArrivals == 2
\* words of a command given to a translator, arguments of an RC_OVERRIDE
MaxWords == 3
MaxArgs == 5
\* draws of uuid4().hex[:8] that repeat an earlier one, per run
MaxRepeats == 1

\* ------------------------------------------------------- program constants
HeartbeatTimeout == 30
PilotCooldown == 50
SubCooldown == 100
PollInterval == 1
MockPeriod == 10
GpsLossStart == 150
GpsLossEnd == 450
AcousticLossStart == 200
AcousticLossEnd == 500
GpsFixThreshold == 3

VARIABLES
    now,                 \* time.time(), in ticks
    horizon,             \* the tick at which the run is cut
    \* the transport (self.master): received and not yet read, sent
    queue,
    outbound,
    \* MAVLinkBridge
    last_heartbeat,
    telemetry,
    is_blackout,
    \* ReasoningAgent and the inference backend of this run
    HAS_MLX,
    is_loaded,
    backend,             \* what the backend does when it is called
    latency,             \* how long one call of generate_manifest takes
    \* the decision loop (SovereignPilot.run / SomaticSub.run)
    script,              \* the script that was started
    pc,
    wake,
    snapshot,
    last_decision_time,
    inventory,           \* INVENTORY_DIR: file name -> manifest
    \* the vehicle simulator
    step,                \* passes of its loop (messages arrived, for a free client)
    mock_next,
    drift,
    \* history, for the properties
    decisions,           \* snapshot["t"] of every triggered decision
    written,             \* number of manifest files written
    excl_since,          \* first poll of the current run of exclusion polls
    excl_count,          \* manifests written in that run
    checked_at           \* time of the bridge's last timeout check

bridge_vars == <<queue, outbound, last_heartbeat, telemetry, is_blackout, checked_at>>
agent_vars == <<HAS_MLX, is_loaded, backend, latency>>
loop_vars == <<pc, wake, snapshot, last_decision_time, inventory>>
mock_vars == <<step, mock_next, drift>>
hist_vars == <<decisions, written, excl_since, excl_count>>
vars == <<now, horizon, script, bridge_vars, agent_vars, loop_vars, mock_vars, hist_vars>>

\* ---------------------------------------------------------------- messages
Heartbeat(custom_mode) == [type |-> "HEARTBEAT", custom_mode |-> custom_mode]
SysStatus(mv, pct) ==
    [type |-> "SYS_STATUS", voltage_battery |-> mv, battery_remaining |-> pct]
GpsRawInt(fix, sats) ==
    [type |-> "GPS_RAW_INT", fix_type |-> fix, satellites_visible |-> sats]
Attitude(roll, pitch, yaw) ==
    [type |-> "ATTITUDE", roll |-> roll, pitch |-> pitch, yaw |-> yaw]
VfrHud(alt) == [type |-> "VFR_HUD", alt |-> alt]
\* a message type update() has no branch for
Statustext == [type |-> "STATUSTEXT"]

\* mavutil.mode_mapping_acm.get(custom_mode, "UNKNOWN")
ModeMappingAcm(custom_mode) ==
    CASE custom_mode = 0 -> "STABILIZE"
      [] custom_mode = 2 -> "ALT_HOLD"
      [] custom_mode = 5 -> "LOITER"
      [] custom_mode = 9 -> "LAND"
      [] OTHER -> "UNKNOWN"

\* self.master.mode_mapping(): the mode names of the vehicle type the
\* heartbeats announce (MAV_TYPE_QUADROTOR, MAV_TYPE_SUBMARINE)
ModeMapping(vehicle) ==
    IF vehicle = "sub"
    THEN {"STABILIZE", "ACRO", "ALT_HOLD", "AUTO", "GUIDED", "CIRCLE",
          "SURFACE", "POSHOLD", "MANUAL"}
    ELSE {"STABILIZE", "ACRO", "ALT_HOLD", "AUTO", "GUIDED", "LOITER", "RTL",
          "CIRCLE", "LAND", "BRAKE"}

\* ------------------------------------------------------------ MAVLinkBridge
InitTelemetry ==
    [mode |-> "UNKNOWN", gps_fix |-> 0, sat_count |-> 0, battery_v |-> 0,
     battery_pct |-> 0, pitch |-> 0, roll |-> 0, yaw |-> 0, alt |-> 0]

\* update(), lines 39-42: the heartbeat timeout check
TimeoutElapsedLax(t, lh) == t - lh >= HeartbeatTimeout
TimeoutElapsed(t, lh) == t - lh > HeartbeatTimeout

BlackoutAfterCheckRecomputed(b, t, lh) == TimeoutElapsed(t, lh)
BlackoutAfterCheck(b, t, lh) == IF TimeoutElapsed(t, lh) THEN TRUE ELSE b

\* update(), lines 50-69: is_blackout after the message read
BlackoutAfterAnyMessage(b, msg) == FALSE
BlackoutAfterMessage(b, msg) == IF msg.type = "HEARTBEAT" THEN FALSE ELSE b

\* update(), lines 50-69: last_heartbeat after the message read
HeartbeatAfterAnyMessage(lh, t, msg) == t
HeartbeatAfterMessage(lh, t, msg) == IF msg.type = "HEARTBEAT" THEN t ELSE lh

\* update(), lines 50-69: the telemetry after the message read
TelemetryAfterMessage(tel, msg) ==
    CASE msg.type = "HEARTBEAT" ->
           [tel EXCEPT !.mode = ModeMappingAcm(msg.custom_mode)]
      [] msg.type = "SYS_STATUS" ->
           [tel EXCEPT !.battery_v = msg.voltage_battery \div 100,
                       !.battery_pct = msg.battery_remaining]
      [] msg.type = "GPS_RAW_INT" ->
           [tel EXCEPT !.gps_fix = msg.fix_type,
                       !.sat_count = msg.satellites_visible]
      [] msg.type = "ATTITUDE" ->
           [tel EXCEPT !.pitch = msg.pitch, !.roll = msg.roll, !.yaw = msg.yaw]
      [] msg.type = "VFR_HUD" -> [tel EXCEPT !.alt = msg.alt]
      [] OTHER -> tel

\* MAVLinkBridge.update: the timeout check, then at most one message read
update ==
    /\ checked_at' = now
    /\ IF queue = <<>>
       THEN /\ is_blackout' = BlackoutAfterCheck(is_blackout, now, last_heartbeat)
            /\ UNCHANGED <<queue, last_heartbeat, telemetry>>
       ELSE /\ queue' = Tail(queue)
            /\ is_blackout' =
                   BlackoutAfterMessage(
                       BlackoutAfterCheck(is_blackout, now, last_heartbeat),
                       Head(queue))
            /\ last_heartbeat' = HeartbeatAfterMessage(last_heartbeat, now, Head(queue))
            /\ telemetry' = TelemetryAfterMessage(telemetry, Head(queue))
    /\ UNCHANGED outbound

\* MAVLinkBridge.get_snapshot: built from the stored fields, nothing is
\* re-evaluated
get_snapshot(tel, b, t) ==
    [t |-> t,
     status |-> [mode |-> tel.mode, battery |-> tel.battery_pct,
                 voltage |-> tel.battery_v],
     perception |-> [gps_fix |-> tel.gps_fix, sats |-> tel.sat_count,
                     attitude |-> [p |-> tel.pitch, r |-> tel.roll, y |-> tel.yaw],
                     alt |-> tel.alt],
     is_blackout |-> b]

\* MAVLinkBridge.set_mode: what the call sends (nothing for an unknown name).
\* A mode name is the sequence of the words of the string.
set_mode_repeated(vehicle, mode_name) ==
    IF Len(mode_name) = 1 /\ mode_name[1] \in ModeMapping(vehicle)
    THEN <<[send |-> "set_mode", mode |-> mode_name[1]],
           [send |-> "set_mode", mode |-> mode_name[1]]>>
    ELSE <<>>
set_mode_unchecked(vehicle, mode_name) ==
    IF Len(mode_name) = 1
    THEN <<[send |-> "set_mode", mode |-> mode_name[1]]>>
    ELSE <<>>
set_mode(vehicle, mode_name) ==
    IF Len(mode_name) = 1 /\ mode_name[1] \in ModeMapping(vehicle)
    THEN <<[send |-> "set_mode", mode |-> mode_name[1]]>>
    ELSE <<>>

\* MAVLinkBridge.send_rc_override: channels 1-4 are roll, pitch, throttle, yaw
send_rc_override(pitch, roll, throttle, yaw) ==
    <<[send |-> "rc_channels_override",
       channels |-> <<roll, pitch, throttle, yaw, 0, 0, 0, 0>>]>>

\* the index of the first HEARTBEAT of the queue, 0 when it holds none
RECURSIVE FirstHeartbeat(_, _)
FirstHeartbeat(q, i) ==
    IF i > Len(q) THEN 0
    ELSE IF q[i].type = "HEARTBEAT" THEN i
    ELSE FirstHeartbeat(q, i + 1)

\* MAVLinkBridge.wait_for_heartbeat: wait_heartbeat() reads up to the first
\* HEARTBEAT, then last_heartbeat = time.time(); is_blackout is not touched
wait_for_heartbeat ==
    /\ FirstHeartbeat(queue, 1) > 0
    /\ queue' = SubSeq(queue, FirstHeartbeat(queue, 1) + 1, Len(queue))
    /\ last_heartbeat' = now
    /\ UNCHANGED <<telemetry, is_blackout, outbound, checked_at>>

\* ----------------------------------------------------------- ReasoningAgent
\* A JSON string is the sequence of its words; a JSON value that is no string
\* (null, a number) has another type.
\* A word is a run of digits (str.isdigit) with its value, or another text.
W(text) == [text |-> text, isdigit |-> FALSE, value |-> 0]
N(value) == [text |-> "0-9", isdigit |-> TRUE, value |-> value]
JsonStr(words) == [type |-> "str", words |-> words]
JsonNull == [type |-> "null", words |-> <<>>]

\* _generate_fallback_reasoning
_generate_fallback_reasoning_counted(anomaly, isolation) ==
    [sensory_synthesis |->
        [inputs |-> <<"ANOMALY_DETECTED", "TELEMETRY_VARIANCE_HIGH",
                      IF isolation THEN "LINK_STATUS_BLACKOUT" ELSE "LINK_STABLE">>,
         interpretation |->
            <<"[", IF isolation THEN "Isolated (Dark Window)" ELSE "Nominal Link",
              "] System detecting non-nominal state: ", anomaly,
              ". Sensors reporting divergence from expected trajectory.">>],
     cognitive_load |-> 85 + written,
     internal_deliberation |->
        <<[thought |->
              <<"Trajectory exceeds 2-sigma deviation. ",
                IF isolation THEN "No external link available." ELSE "",
                " Parameters may be compromised.">>,
           confidence |-> 90,
           action_rejected |-> "MAINTAIN_CURRENT_ATTITUDE"]>>,
     mission_assurance_check |->
        [risk_level |-> "HIGH",
         failure_mode_prediction |-> "Potential uncontrolled drift or system degradation.",
         mitigation_strategy |-> "Engage stabilization. Prioritize power conservation."],
     decision |->
        [actuator_command |-> JsonStr(<<W("HOLD_POSITION")>>),
         expected_outcome |-> "Maintain stability and wait for conditions to improve."],
     self_reflection |->
        <<"Operating in ",
          IF isolation THEN "epistemic isolation" ELSE "degraded mode",
          ". Physical intuition suggests conservative action.">>]
_generate_fallback_reasoning(anomaly, isolation) ==
    [sensory_synthesis |->
        [inputs |-> <<"ANOMALY_DETECTED", "TELEMETRY_VARIANCE_HIGH",
                      IF isolation THEN "LINK_STATUS_BLACKOUT" ELSE "LINK_STABLE">>,
         interpretation |->
            <<"[", IF isolation THEN "Isolated (Dark Window)" ELSE "Nominal Link",
              "] System detecting non-nominal state: ", anomaly,
              ". Sensors reporting divergence from expected trajectory.">>],
     cognitive_load |-> 85,
     internal_deliberation |->
        <<[thought |->
              <<"Trajectory exceeds 2-sigma deviation. ",
                IF isolation THEN "No external link available." ELSE "",
                " Parameters may be compromised.">>,
           confidence |-> 90,
           action_rejected |-> "MAINTAIN_CURRENT_ATTITUDE"]>>,
     mission_assurance_check |->
        [risk_level |-> "HIGH",
         failure_mode_prediction |-> "Potential uncontrolled drift or system degradation.",
         mitigation_strategy |-> "Engage stabilization. Prioritize power conservation."],
     decision |->
        [actuator_command |-> JsonStr(<<W("HOLD_POSITION")>>),
         expected_outcome |-> "Maintain stability and wait for conditions to improve."],
     self_reflection |->
        <<"Operating in ",
          IF isolation THEN "epistemic isolation" ELSE "degraded mode",
          ". Physical intuition suggests conservative action.">>]

\* A payload of the schema the prompt asks for, deciding `command`
SchemaPayload(command) ==
    [sensory_synthesis |->
        [inputs |-> <<"GPS_DEGRADED">>, interpretation |-> <<"model output">>],
     cognitive_load |-> 40,
     internal_deliberation |->
        <<[thought |-> <<"model thought">>, confidence |-> 70,
           action_rejected |-> "NONE"]>>,
     mission_assurance_check |->
        [risk_level |-> "MEDIUM", failure_mode_prediction |-> "drift",
         mitigation_strategy |-> "hold"],
     decision |-> [actuator_command |-> command, expected_outcome |-> "stable"],
     self_reflection |-> <<"model reflection">>]

\* What the inference backend does in one call of generate_manifest:
\*   load_ok: load(model_path) returns (line 36) rather than raises
\*   raises:  apply_chat_template or generate raises (lines 72-73)
\*   fenced:  the text holds a ```json block (line 76)
\*   valid:   json.loads accepts the extracted text (line 80)
\*   value:   what json.loads returns
Backend(load_ok, raises, fenced, valid, value) ==
    [load_ok |-> load_ok, raises |-> raises, fenced |-> fenced,
     valid |-> valid, value |-> value]

\* the JSON objects the backend's text may hold: of the schema (a command as
\* a string in either case, or null), or of another shape
ModelCommands ==
    {JsonStr(<<W("HOLD_POSITION")>>), JsonStr(<<W("emergency_land")>>),
     JsonStr(<<W("SWITCH_MODE"), W("GUIDED")>>), JsonStr(<<W("CONTINUE_MISSION")>>),
     JsonStr(<<W("SWITCH_MODE"), W("WARP")>>),
     JsonStr(<<W("RC_OVERRIDE"), N(1400), N(1600), N(1200), N(1500)>>), JsonNull}
ModelValues ==
    {SchemaPayload(c) : c \in ModelCommands}
        \cup {[decision |-> [expected_outcome |-> "stable"]],
              [self_reflection |-> <<"model reflection">>]}
Backends ==
    {Backend(FALSE, FALSE, FALSE, FALSE, SchemaPayload(JsonNull)),
     Backend(TRUE, TRUE, FALSE, FALSE, SchemaPayload(JsonNull)),
     Backend(TRUE, FALSE, FALSE, FALSE, SchemaPayload(JsonNull)),
     Backend(TRUE, FALSE, TRUE, FALSE, SchemaPayload(JsonNull))}
        \cup {Backend(TRUE, FALSE, FALSE, TRUE, v) : v \in ModelValues}
        \cup {Backend(TRUE, FALSE, TRUE, TRUE, SchemaPayload(c)) :
                 c \in {JsonStr(<<W("HOLD_POSITION")>>)}}

\* _load_model: is_loaded after the call
LoadedAfter(has_mlx, loaded, behaviour) ==
    IF has_mlx /\ ~loaded THEN behaviour.load_ok ELSE loaded

\* generate_manifest, lines 59-87: reasoning_data
ReasoningDataUnchecked(has_mlx, loaded, behaviour, anomaly, isolation) ==
    IF has_mlx /\ LoadedAfter(has_mlx, loaded, behaviour) /\ ~behaviour.raises
    THEN behaviour.value
    ELSE _generate_fallback_reasoning(anomaly, isolation)
ReasoningData(has_mlx, loaded, behaviour, anomaly, isolation) ==
    IF has_mlx /\ LoadedAfter(has_mlx, loaded, behaviour)
    THEN IF behaviour.raises
         THEN _generate_fallback_reasoning(anomaly, isolation)
         ELSE IF behaviour.valid
              THEN behaviour.value
              ELSE _generate_fallback_reasoning(anomaly, isolation)
    ELSE _generate_fallback_reasoning(anomaly, isolation)

\* hashlib.sha256(text).hexdigest(): a digest stands for the text it was
\* computed from (no two texts of the model share a digest); "" is EmptyProof
Sha256(text) == [sha256 |-> text]
EmptyProof == [sha256 |-> <<>>]

\* the manifest's keys in the order generate_manifest inserts them, and sorted
ManifestKeys ==
    <<"mission_id", "environment", "timestamp", "is_dark_window", "telemetry_ref",
      "epistemic_status", "agent_reasoning", "trajectory_context", "sha256_proof">>
SortedManifestKeys ==
    <<"agent_reasoning", "environment", "epistemic_status", "is_dark_window",
      "mission_id", "sha256_proof", "telemetry_ref", "timestamp",
      "trajectory_context">>

\* json.dumps(manifest, sort_keys=True): the members in the order of the
\* sorted keys (the nested objects are records, which have no order)
JsonDumpsSorted(manifest) ==
    [i \in 1..Len(SortedManifestKeys) |->
        [key |-> SortedManifestKeys[i], value |-> <<manifest[SortedManifestKeys[i]]>>]]

\* generate_manifest, lines 101-102: the proof of an assembled manifest
ProofBeforeContext(manifest) ==
    Sha256(JsonDumpsSorted([manifest EXCEPT !.trajectory_context = [none |-> TRUE]]))
ProofOf(manifest) == Sha256(JsonDumpsSorted(manifest))

\* generate_manifest, line 95: epistemic_status
EpistemicStatusNominal(epistemic_isolation) == "NOMINAL_LINK"
EpistemicStatus(epistemic_isolation) ==
    IF epistemic_isolation THEN "503_BLACKOUT" ELSE "NOMINAL_LINK"

\* generate_manifest, lines 89-104
generate_manifest(mission_id, environment, timestamp, reasoning_data, epistemic_isolation, trajectory_context) ==
    LET manifest ==
            [mission_id |-> mission_id,
             environment |-> environment,
             timestamp |-> timestamp,
             is_dark_window |-> epistemic_isolation,
             telemetry_ref |-> <<mission_id, "_telemetry.json">>,
             epistemic_status |-> EpistemicStatus(epistemic_isolation),
             agent_reasoning |-> reasoning_data,
             trajectory_context |-> trajectory_context,
             sha256_proof |-> EmptyProof]
    IN  [manifest EXCEPT !.sha256_proof = ProofOf(manifest)]

\* ------------------------------------------------------- command translation
\* str.upper() of a word
UpperText(text) ==
    CASE text = "emergency_land" -> "EMERGENCY_LAND"
      [] text = "hold_position" -> "HOLD_POSITION"
      [] text = "switch_mode" -> "SWITCH_MODE"
      [] text = "land" -> "LAND"
      [] text = "stay" -> "STAY"
      [] OTHER -> text
Upper(words) ==
    [i \in 1..Len(words) |-> [words[i] EXCEPT !.text = UpperText(words[i].text)]]

\* `keyword in word`: the keywords that are substrings of a word of the model
SubstringOf(keyword, text) ==
    \/ keyword = text
    \/ <<keyword, text>> \in
           {<<"LAND", "EMERGENCY_LAND">>, <<"LAND", "LANDING">>,
            <<"STOP", "NONSTOP">>, <<"STAY", "STAY_PUT">>,
            <<"HOLD_POSITION", "HOLD_POSITION_NOW">>}
\* `keyword in command`: no keyword holds a space, so it lies within a word
In(keyword, words) ==
    \E i \in 1..Len(words) : SubstringOf(keyword, words[i].text)

\* command.split("SWITCH_MODE")[-1].strip(): the words after the last
\* SWITCH_MODE
RECURSIVE AfterLast(_, _, _)
AfterLast(words, keyword, i) ==
    IF i = 0 THEN words
    ELSE IF words[i].text = keyword THEN SubSeq(words, i + 1, Len(words))
    ELSE AfterLast(words, keyword, i - 1)

\* the texts of a sequence of words
Texts(words) == [i \in 1..Len(words) |-> words[i].text]

\* [int(s) for s in command.split() if s.isdigit()]
RECURSIVE Digits(_)
Digits(words) ==
    IF words = <<>> THEN <<>>
    ELSE IF Head(words).isdigit THEN <<Head(words).value>> \o Digits(Tail(words))
    ELSE Digits(Tail(words))

\* execute_decision, line 113: the parameters an override is sent with
OverrideParamsAtLeast(params) == Len(params) >= 4
OverrideParams(params) == Len(params) = 4

\* execute_decision, lines 84-92: the name given to set_mode by the
\* SWITCH_MODE intent
SwitchTargetLiteral(target_mode) == Texts(target_mode)
SwitchTarget(target_mode) ==
    IF In("HEADING_HOLD", target_mode) \/ In("ALT_HOLD", target_mode)
    THEN <<"ALT_HOLD">>
    ELSE IF In("LAND", target_mode)
    THEN <<"LAND">>
    ELSE IF In("STABILIZE", target_mode)
    THEN <<"STABILIZE">>
    ELSE Texts(target_mode)

\* execute_decision, lines 105-108: the mode of the STOP/HOVER/HOLD_POSITION
\* intent
HoldModeLoiter(gps_fix) == "LOITER"
HoldMode(gps_fix) == IF gps_fix < GpsFixThreshold THEN "ALT_HOLD" ELSE "LOITER"

\* SovereignPilot.execute_decision: what the call sends through the bridge
execute_decision(command, gps_fix) ==
    LET cmd == Upper(command)
        target_mode == AfterLast(cmd, "SWITCH_MODE", Len(cmd))
        params == Digits(cmd)
    IN  IF In("SWITCH_MODE", cmd)
        THEN set_mode("copter", SwitchTarget(target_mode))
        ELSE IF In("SUN_SAFE_ATTITUDE", cmd) \/ In("MAINTAIN_STABILITY", cmd)
        THEN set_mode("copter", <<"ALT_HOLD">>)
        ELSE IF In("EMERGENCY_LAND", cmd)
        THEN set_mode("copter", <<"LAND">>)
        ELSE IF In("STOP", cmd) \/ In("HOVER", cmd) \/ In("HOLD_POSITION", cmd)
        THEN set_mode("copter", <<HoldMode(gps_fix)>>)
        ELSE IF In("RC_OVERRIDE", cmd)
        THEN IF OverrideParams(params)
             THEN send_rc_override(params[1], params[2], params[3], params[4])
             ELSE <<>>
        ELSE <<>>

\* SomaticSub.execute_sub_decision: what the call sends through the bridge
execute_sub_decision(command) ==
    LET cmd == Upper(command)
    IN  IF In("SURFACE", cmd)
        THEN <<>>
        ELSE IF In("DEPTH_HOLD", cmd) \/ In("STAY", cmd)
        THEN set_mode("sub", <<"ALT_HOLD">>)
        ELSE IF In("STABILIZE", cmd)
        THEN set_mode("sub", <<"STABILIZE">>)
        ELSE <<>>

\* ------------------------------------------------------- vehicle simulators
\* SITL_MOCK.run_mock, one pass of the loop: the GPS fix is lost from 15 s to
\* 45 s after boot, heartbeats never stop
SitlGpsFix(current_time) ==
    IF current_time < GpsLossStart \/ current_time > GpsLossEnd THEN 3 ELSE 0
SitlSatCount(current_time) ==
    IF current_time < GpsLossStart \/ current_time > GpsLossEnd THEN 12 ELSE 2
SitlMock ==
    /\ script = "sovereign_pilot.py"
    /\ pc \in {"wait", "poll", "reason"}
    /\ mock_next <= now
    /\ LET current_time == now - Epoch + drift
       IN  queue' = queue \o
              <<Heartbeat(0),
                SysStatus(12400, 85),
                Attitude(100 * (step % 10), 50 * (step % 5), 1500),
                GpsRawInt(SitlGpsFix(current_time), SitlSatCount(current_time)),
                VfrHud(2500)>>
    /\ step' = step + 1
    /\ mock_next' = now + MockPeriod
    /\ UNCHANGED drift
    /\ UNCHANGED <<now, horizon, script, outbound, last_heartbeat, telemetry, is_blackout,
                   checked_at, agent_vars, loop_vars, hist_vars>>

\* SITL_SUB_MOCK.run_mock, one pass of the loop: no heartbeat from 20 s to
\* 50 s after boot, and no GPS message at all
IsAcousticLoss(current_time) ==
    current_time > AcousticLossStart /\ current_time < AcousticLossEnd
SitlSubMock ==
    /\ script = "somatic_sub.py"
    /\ pc \in {"wait", "poll", "reason"}
    /\ mock_next <= now
    /\ LET current_time == now - Epoch + drift
           heartbeat ==
               IF IsAcousticLoss(current_time) THEN <<>> ELSE <<Heartbeat(0)>>
       IN  queue' = queue \o heartbeat \o
              <<SysStatus(14800, 92),
                Attitude(20 * (step % 5), 30 * (step % 8), 1500),
                VfrHud(-(1000 + 10 * step))>> \o heartbeat
    /\ step' = step + 1
    /\ mock_next' = now + MockPeriod
    /\ UNCHANGED drift
    /\ UNCHANGED <<now, horizon, script, outbound, last_heartbeat, telemetry, is_blackout,
                   checked_at, agent_vars, loop_vars, hist_vars>>

\* --------------------------------------------------------- decision loops
\* sovereign_pilot.py line 37
IsExclusionBlackoutOnly(snap) == snap.is_blackout
IsExclusion(snap) ==
    snap.is_blackout \/ snap.perception.gps_fix < GpsFixThreshold

\* somatic_sub.py lines 41 and 46: the underwater exclusion test
IsAcousticExclusionOrGps(snap) ==
    snap.is_blackout \/ snap.perception.gps_fix < GpsFixThreshold
IsAcousticExclusion(snap) == snap.is_blackout

\* sovereign_pilot.py line 39, somatic_sub.py line 46: the cooldown test
CooldownElapsedLax(t, last, cooldown) == t - last >= cooldown
CooldownIgnored(t, last, cooldown) == TRUE
CooldownElapsed(t, last, cooldown) == t - last > cooldown

\* self.decision_cooldown: sovereign_pilot.py line 26, somatic_sub.py line 31
decision_cooldown ==
    IF script = "somatic_sub.py" THEN SubCooldown ELSE PilotCooldown

\* sovereign_pilot.py line 42
AnomalyTypeGnssFirst(snap) ==
    IF snap.perception.gps_fix < GpsFixThreshold
    THEN "GNSS_DENIED_NAVIGATION" ELSE "503_CONJUNCTION_BLACKOUT"
AnomalyType(snap) ==
    IF snap.is_blackout THEN "503_CONJUNCTION_BLACKOUT" ELSE "GNSS_DENIED_NAVIGATION"

\* uuid.uuid4().hex[:8]: a draw is a value no file is named by yet, or, at
\* most MaxRepeats times in a run, the value of the latest file (32 bits of a
\* random UUID can repeat)
Uuid4 ==
    {Cardinality(DOMAIN inventory) + 1} \cup
        (IF inventory # <<>> /\ written - Cardinality(DOMAIN inventory) < MaxRepeats
         THEN {Cardinality(DOMAIN inventory)}
         ELSE {})

\* manifest["agent_reasoning"]["decision"]["actuator_command"] is there
HasCommand(reasoning_data) ==
    /\ "decision" \in DOMAIN reasoning_data
    /\ "actuator_command" \in DOMAIN reasoning_data.decision

\* open(m_path, "w") and json.dump: the file of that name now holds the manifest
SaveManifest(dir, manifest) ==
    [name \in DOMAIN dir \cup {<<manifest.mission_id, ".reasoning.json">>} |->
        IF name = <<manifest.mission_id, ".reasoning.json">>
        THEN manifest
        ELSE dir[name]]

\* sovereign_pilot.py lines 64-71, somatic_sub.py lines 69-77: the translator
\* is called after the write; an OSError of open() or json.dump leaves run()
\* before it
DispatchRegardless(saved, sends) == sends
DispatchAfterSave(saved, sends) == IF saved THEN sends ELSE <<>>

\* the run of consecutive polls under exclusion, after one more poll
ExclSince(excluded, t) ==
    IF excluded THEN (IF excl_since < 0 THEN t ELSE excl_since) ELSE -1
ExclCount(excluded) ==
    IF excluded /\ excl_since >= 0 THEN excl_count ELSE 0

\* SovereignPilot.run, line 29 / SomaticSub.run, line 34
WaitForHeartbeat ==
    /\ pc = "wait"
    /\ wait_for_heartbeat
    /\ pc' = "poll"
    /\ wake' = now
    /\ UNCHANGED <<now, horizon, script, agent_vars, snapshot, last_decision_time,
                   inventory, mock_vars, hist_vars>>

\* SovereignPilot.run, lines 33-39 and 75: update, get_snapshot, the trigger
\* test; the cycle either enters generate_manifest or sleeps
PilotCycle ==
    /\ script = "sovereign_pilot.py"
    /\ pc = "poll"
    /\ wake <= now
    /\ update
    /\ LET snap == get_snapshot(telemetry', is_blackout', now)
           triggered ==
               IsExclusion(snap)
                   /\ CooldownElapsed(now, last_decision_time, decision_cooldown)
       IN  /\ snapshot' = snap
           /\ excl_since' = ExclSince(IsExclusion(snap), now)
           /\ excl_count' = ExclCount(IsExclusion(snap))
           /\ IF triggered
              THEN /\ pc' = "reason"
                   /\ wake' = now + latency
                   /\ decisions' = Append(decisions, snap.t)
              ELSE /\ pc' = "poll"
                   /\ wake' = now + PollInterval
                   /\ UNCHANGED decisions
    /\ UNCHANGED <<now, horizon, script, agent_vars, last_decision_time, inventory,
                   mock_vars, written>>

\* SovereignPilot.run, lines 42-73: generate_manifest returns, the manifest
\* is saved, the command is read out of it and executed, the cooldown starts
PilotDecide ==
    /\ script = "sovereign_pilot.py"
    /\ pc = "reason"
    /\ wake <= now
    /\ \E uuid \in Uuid4 :
          LET anomaly_type == AnomalyType(snapshot)
              manifest ==
                  generate_manifest(
                      <<"cosmo_", uuid>>, "ARDUPILOT_SITL", snapshot.t,
                      ReasoningData(HAS_MLX, is_loaded, backend, anomaly_type,
                                    snapshot.is_blackout),
                      snapshot.is_blackout,
                      [parent_trajectory_id |-> <<"sitl_", snapshot.t \div 10>>,
                       parent_trajectory_hash |-> "SITL_MOCK_DYNAMIC",
                       anomaly_type |-> anomaly_type,
                       timestep_of_decision |-> snapshot.t,
                       telemetry_at_decision |-> snapshot,
                       mission_outcome |-> "indeterminate"])
              reasoning == manifest.agent_reasoning
          IN  /\ is_loaded' = LoadedAfter(HAS_MLX, is_loaded, backend)
              /\ \E saved \in BOOLEAN :
                    IF saved
                    THEN /\ inventory' = SaveManifest(inventory, manifest)
                         /\ written' = written + 1
                         /\ excl_count' = excl_count + 1
                         /\ IF HasCommand(reasoning)
                                   /\ reasoning.decision.actuator_command.type = "str"
                            THEN /\ outbound' = outbound \o
                                        DispatchAfterSave(saved,
                                            execute_decision(
                                                reasoning.decision.actuator_command.words,
                                                telemetry.gps_fix))
                                 /\ last_decision_time' = now
                                 /\ pc' = "poll"
                                 /\ wake' = now + PollInterval
                            ELSE \* KeyError at line 67, AttributeError at line 79
                                 /\ pc' = "crashed"
                                 /\ UNCHANGED <<outbound, last_decision_time, wake>>
                    ELSE \* OSError at line 64 or 65: run() is left
                         /\ pc' = "io_error"
                         /\ outbound' = outbound \o
                                DispatchAfterSave(saved,
                                    IF HasCommand(reasoning)
                                          /\ reasoning.decision.actuator_command.type = "str"
                                    THEN execute_decision(
                                             reasoning.decision.actuator_command.words,
                                             telemetry.gps_fix)
                                    ELSE <<>>)
                         /\ UNCHANGED <<inventory, written, excl_count,
                                        last_decision_time, wake>>
    /\ UNCHANGED <<now, horizon, script, queue, last_heartbeat, telemetry, is_blackout,
                   checked_at, HAS_MLX, backend, latency, snapshot, mock_vars,
                   decisions, excl_since>>

\* SomaticSub.run, lines 37-46 and 81
SubCycle ==
    /\ script = "somatic_sub.py"
    /\ pc = "poll"
    /\ wake <= now
    /\ update
    /\ LET snap == get_snapshot(telemetry', is_blackout', now)
           triggered ==
               IsAcousticExclusion(snap)
                   /\ CooldownElapsed(now, last_decision_time, decision_cooldown)
       IN  /\ snapshot' = snap
           /\ excl_since' = ExclSince(snap.is_blackout, now)
           /\ excl_count' = ExclCount(snap.is_blackout)
           /\ IF triggered
              THEN /\ pc' = "reason"
                   /\ wake' = now + latency
                   /\ decisions' = Append(decisions, snap.t)
              ELSE /\ pc' = "poll"
                   /\ wake' = now + PollInterval
                   /\ UNCHANGED decisions
    /\ UNCHANGED <<now, horizon, script, agent_vars, last_decision_time, inventory,
                   mock_vars, written>>

\* SomaticSub.run, lines 49-79
SubDecide ==
    /\ script = "somatic_sub.py"
    /\ pc = "reason"
    /\ wake <= now
    /\ \E uuid \in Uuid4 :
          LET manifest ==
                  generate_manifest(
                      <<"sub_", uuid>>, "DEEPBLUE", snapshot.t,
                      ReasoningData(HAS_MLX, is_loaded, backend,
                                    "ACOUSTIC_LINK_LOSS", TRUE),
                      TRUE,
                      [parent_trajectory_id |-> <<"sub_sitl_", snapshot.t \div 10>>,
                       parent_trajectory_hash |-> "SUB_SITL_MOCK",
                       anomaly_type |-> "ACOUSTIC_LINK_LOSS",
                       timestep_of_decision |-> snapshot.t,
                       telemetry_at_decision |-> snapshot,
                       mission_outcome |-> "success"])
              reasoning == manifest.agent_reasoning
          IN  /\ is_loaded' = LoadedAfter(HAS_MLX, is_loaded, backend)
              /\ \E saved \in BOOLEAN :
                    IF saved
                    THEN /\ inventory' = SaveManifest(inventory, manifest)
                         /\ written' = written + 1
                         /\ excl_count' = excl_count + 1
                         /\ IF HasCommand(reasoning)
                                   /\ reasoning.decision.actuator_command.type = "str"
                            THEN /\ outbound' = outbound \o
                                        DispatchAfterSave(saved,
                                            execute_sub_decision(
                                                reasoning.decision.actuator_command.words))
                                 /\ last_decision_time' = now
                                 /\ pc' = "poll"
                                 /\ wake' = now + PollInterval
                            ELSE \* KeyError at line 72, AttributeError at line 85
                                 /\ pc' = "crashed"
                                 /\ UNCHANGED <<outbound, last_decision_time, wake>>
                    ELSE \* OSError at line 69 or 70: run() is left
                         /\ pc' = "io_error"
                         /\ outbound' = outbound \o
                                DispatchAfterSave(saved,
                                    IF HasCommand(reasoning)
                                          /\ reasoning.decision.actuator_command.type = "str"
                                    THEN execute_sub_decision(
                                             reasoning.decision.actuator_command.words)
                                    ELSE <<>>)
                         /\ UNCHANGED <<inventory, written, excl_count,
                                        last_decision_time, wake>>
    /\ UNCHANGED <<now, horizon, script, queue, last_heartbeat, telemetry, is_blackout,
                   checked_at, HAS_MLX, backend, latency, snapshot, mock_vars,
                   decisions, excl_since>>

\* Time passes while the loop sleeps or waits inside the backend and the
\* simulator sleeps
Tick ==
    /\ now < horizon
    /\ mock_next > now
    /\ \/ pc \in {"poll", "reason"} /\ wake > now
       \/ pc = "wait" /\ FirstHeartbeat(queue, 1) = 0
    /\ now' = now + 1
    /\ UNCHANGED <<horizon, script, bridge_vars, agent_vars, loop_vars, mock_vars, hist_vars>>

\* ------------------------------------------------- a free bridge client
\* Any caller of the bridge's methods, in any order (the loops are two such
\* callers; mavlink_bridge.py's __main__ is a third), and any vehicle: its
\* messages arrive in any order, at any time.
ClientMessages ==
    {Heartbeat(0), SysStatus(12400, 85), GpsRawInt(3, 12),
     Attitude(100, 50, 1500), VfrHud(2500), Statustext}

\* a message reaches the transport
Arrive ==
    /\ pc \in {"client", "wait", "poll", "reason"}
    /\ Len(queue) < MaxQueue
    /\ step < MaxArrivals
    /\ \E msg \in ClientMessages : queue' = Append(queue, msg)
    /\ step' = step + 1
    /\ UNCHANGED <<now, horizon, script, outbound, last_heartbeat, telemetry, is_blackout,
                   checked_at, agent_vars, loop_vars, mock_next, drift, hist_vars>>

\* time passes between two calls
Advance ==
    /\ pc \in {"client", "wait", "poll", "reason"}
    /\ \E d \in {HeartbeatTimeout, HeartbeatTimeout + 1} :
          /\ now + d <= horizon
          /\ now' = now + d
    /\ UNCHANGED <<horizon, script, bridge_vars, agent_vars, loop_vars, mock_vars, hist_vars>>

ClientWaitForHeartbeat ==
    /\ pc = "client"
    /\ wait_for_heartbeat
    /\ UNCHANGED <<now, horizon, script, agent_vars, loop_vars, mock_vars, hist_vars>>

ClientUpdate ==
    /\ pc = "client"
    /\ update
    /\ UNCHANGED <<now, horizon, script, agent_vars, loop_vars, mock_vars, hist_vars>>

ClientGetSnapshot ==
    /\ pc = "client"
    /\ snapshot' = get_snapshot(telemetry, is_blackout, now)
    /\ UNCHANGED <<now, horizon, script, bridge_vars, agent_vars, pc, wake,
                   last_decision_time, inventory, mock_vars, hist_vars>>

ClientSetMode ==
    /\ pc = "client"
    /\ Len(outbound) < MaxSent
    /\ \E mode_name \in {<<"LAND">>, <<"WARP">>} :
          outbound' = outbound \o set_mode("copter", mode_name)
    /\ UNCHANGED <<now, horizon, script, queue, last_heartbeat, telemetry, is_blackout,
                   checked_at, agent_vars, loop_vars, mock_vars, hist_vars>>

ClientSendRcOverride ==
    /\ pc = "client"
    /\ Len(outbound) < MaxSent
    /\ outbound' = outbound \o send_rc_override(1600, 1400, 1200, 1500)
    /\ UNCHANGED <<now, horizon, script, queue, last_heartbeat, telemetry, is_blackout,
                   checked_at, agent_vars, loop_vars, mock_vars, hist_vars>>

\* ------------------------------------------------ the translators alone
\* The commands the translators are tried on: up to MaxWords words of the
\* vocabulary, and RC_OVERRIDE with up to MaxArgs arguments.
Vocabulary ==
    {W("SWITCH_MODE"), W("emergency_land"), W("MAINTAIN_STABILITY"),
     W("SUN_SAFE_ATTITUDE"), W("HOLD_POSITION"), W("NONSTOP"), W("HOVER"),
     W("RC_OVERRIDE"), W("LAND"), W("STABILIZE"), W("WARP"), W("STAY"),
     W("GUIDED"), W("HEADING_HOLD")}
Arguments == {N(1200), N(1400), N(1500), N(1600), W("WARP")}
KeywordCommands == UNION {[1..n -> Vocabulary] : n \in 0..MaxWords}
OverrideCommands ==
    {prefix \o <<W("RC_OVERRIDE")>> \o arguments :
        prefix \in {<<>>, <<N(1500)>>, <<W("HOLD_POSITION")>>},
        arguments \in UNION {[1..n -> Arguments] : n \in 0..MaxArgs}}
Commands == KeywordCommands \cup OverrideCommands
GpsFixes == {0, GpsFixThreshold - 1, GpsFixThreshold}

\* the actuator_command of the decision in hand
Command == backend.value.decision.actuator_command.words

\* SovereignPilot.execute_decision(command)
ExecuteDecision ==
    /\ script = "sovereign_pilot.py"
    /\ pc = "dispatch"
    /\ outbound' = outbound \o execute_decision(Command, telemetry.gps_fix)
    /\ pc' = "dispatched"
    /\ UNCHANGED <<now, horizon, script, queue, last_heartbeat, telemetry, is_blackout,
                   checked_at, agent_vars, wake, snapshot, last_decision_time,
                   inventory, mock_vars, hist_vars>>

\* SomaticSub.execute_sub_decision(command)
ExecuteSubDecision ==
    /\ script = "somatic_sub.py"
    /\ pc = "dispatch"
    /\ outbound' = outbound \o execute_sub_decision(Command)
    /\ pc' = "dispatched"
    /\ UNCHANGED <<now, horizon, script, queue, last_heartbeat, telemetry, is_blackout,
                   checked_at, agent_vars, wake, snapshot, last_decision_time,
                   inventory, mock_vars, hist_vars>>

\* ---------------------------------------------------------- specifications
\* the state after MAVLinkBridge(), ReasoningAgent() and the loop's __init__
InitBridge ==
    /\ now = Epoch
    /\ queue = <<>>
    /\ outbound = <<>>
    /\ last_heartbeat = 0
    /\ telemetry = InitTelemetry
    /\ is_blackout = FALSE
    /\ checked_at = 0
    /\ snapshot = get_snapshot(InitTelemetry, FALSE, 0)
InitProgram ==
    /\ InitBridge
    /\ \/ \* mlx_lm is not installed: the backend is never called
          /\ HAS_MLX = FALSE
          /\ backend = Backend(FALSE, FALSE, FALSE, FALSE, SchemaPayload(JsonNull))
          /\ latency = 0
       \/ /\ HAS_MLX = TRUE
          /\ backend \in Backends
          /\ latency \in {0, MaxLatency}
    /\ is_loaded = FALSE
    /\ wake = Epoch
    /\ last_decision_time = 0
    /\ inventory = <<>>
    /\ step = 0
    /\ drift \in 0..MaxDrift
    /\ decisions = <<>>
    /\ written = 0
    /\ excl_since = -1
    /\ excl_count = 0

\* sovereign_pilot.py against SITL_MOCK.py
InitPilot ==
    /\ InitProgram
    /\ script = "sovereign_pilot.py"
    /\ pc = "wait"
    /\ horizon = Epoch + PilotHorizon
    /\ mock_next = Epoch
NextPilot == WaitForHeartbeat \/ PilotCycle \/ PilotDecide \/ SitlMock \/ Tick
SpecPilot == InitPilot /\ [][NextPilot]_vars

\* somatic_sub.py against SITL_SUB_MOCK.py
InitSub ==
    /\ InitProgram
    /\ script = "somatic_sub.py"
    /\ pc = "wait"
    /\ horizon = Epoch + SubHorizon
    /\ mock_next = Epoch
NextSub == WaitForHeartbeat \/ SubCycle \/ SubDecide \/ SitlSubMock \/ Tick
SpecSub == InitSub /\ [][NextSub]_vars

\* either loop against its simulator
InitLoops == InitPilot \/ InitSub
NextLoops ==
    \/ WaitForHeartbeat
    \/ PilotCycle
    \/ PilotDecide
    \/ SitlMock
    \/ SubCycle
    \/ SubDecide
    \/ SitlSubMock
    \/ Tick
SpecLoops == InitLoops /\ [][NextLoops]_vars

\* either loop against any vehicle
InitFree ==
    /\ InitProgram
    /\ script \in {"sovereign_pilot.py", "somatic_sub.py"}
    /\ pc = "wait"
    /\ horizon = Epoch + FreeHorizon
    /\ mock_next = Epoch
    /\ drift = 0
NextFree ==
    \/ WaitForHeartbeat
    \/ PilotCycle
    \/ PilotDecide
    \/ SubCycle
    \/ SubDecide
    \/ Arrive
    \/ Advance
SpecFree == InitFree /\ [][NextFree]_vars

\* a translator called with any command, at any GPS fix
InitDispatch ==
    /\ now = Epoch
    /\ horizon = Epoch
    /\ queue = <<>>
    /\ outbound = <<>>
    /\ last_heartbeat = Epoch
    /\ \/ /\ script = "sovereign_pilot.py"
          /\ \E gps_fix \in GpsFixes :
                telemetry = [InitTelemetry EXCEPT !.gps_fix = gps_fix]
       \/ /\ script = "somatic_sub.py"
          /\ telemetry = InitTelemetry
    /\ is_blackout = FALSE
    /\ checked_at = Epoch
    /\ snapshot = get_snapshot(telemetry, FALSE, Epoch)
    /\ HAS_MLX = TRUE
    /\ is_loaded = TRUE
    /\ \E command \in Commands :
          backend = Backend(TRUE, FALSE, FALSE, TRUE, SchemaPayload(JsonStr(command)))
    /\ latency = 0
    /\ pc = "dispatch"
    /\ wake = Epoch
    /\ last_decision_time = 0
    /\ inventory = <<>>
    /\ step = 0
    /\ mock_next = Epoch
    /\ drift = 0
    /\ decisions = <<>>
    /\ written = 0
    /\ excl_since = -1
    /\ excl_count = 0
NextDispatch == ExecuteDecision \/ ExecuteSubDecision
SpecDispatch == InitDispatch /\ [][NextDispatch]_vars

\* mavlink_bridge.py under any caller
InitClient ==
    /\ InitBridge
    /\ script = "mavlink_bridge.py"
    /\ pc = "client"
    /\ horizon = Epoch + BridgeHorizon
    /\ HAS_MLX = FALSE
    /\ backend = Backend(FALSE, FALSE, FALSE, FALSE, SchemaPayload(JsonNull))
    /\ latency = 0
    /\ is_loaded = FALSE
    /\ wake = Epoch
    /\ last_decision_time = 0
    /\ inventory = <<>>
    /\ step = 0
    /\ mock_next = Epoch
    /\ drift = 0
    /\ decisions = <<>>
    /\ written = 0
    /\ excl_since = -1
    /\ excl_count = 0
NextBridge ==
    \/ Arrive
    \/ Advance
    \/ ClientWaitForHeartbeat
    \/ ClientUpdate
    \/ ClientGetSnapshot
    \/ ClientSetMode
    \/ ClientSendRcOverride
SpecBridge == InitClient /\ [][NextBridge]_vars

\* ------------------------------------------------------------- properties
\* C1: in the decision loop, with heartbeats reaching the transport no more
\* than 3.0 s apart from wait_for_heartbeat() on (SITL_MOCK sends one every
\* second and never stops), every snapshot the loop takes has is_blackout
\* false.
C1_HeartbeatsKeepSnapshotsClear ==
    pc \in {"poll", "reason", "crashed"} => ~snapshot.is_blackout

C3_BlackoutTransitions ==
    [][/\ (~is_blackout /\ is_blackout') =>
              now - last_heartbeat > HeartbeatTimeout
       /\ (is_blackout /\ ~is_blackout') =>
              /\ queue # <<>>
              /\ Head(queue).type = "HEARTBEAT"
              /\ queue' = Tail(queue)
              /\ last_heartbeat' = now
       /\ (is_blackout' # is_blackout) => ClientUpdate
       /\ (Arrive \/ Advance \/ ClientWaitForHeartbeat \/ ClientGetSnapshot
               \/ ClientSetMode \/ ClientSendRcOverride) =>
              is_blackout' = is_blackout]_vars

\* the flag has gone up (a snapshot recorded it) and then down again on a
\* heartbeat that update() read
C3_Witness ==
    /\ pc = "client"
    /\ snapshot.is_blackout
    /\ ~is_blackout
    /\ last_heartbeat >= Epoch
    /\ last_heartbeat = checked_at

\* C4: in both loops two consecutive triggered decisions are more than the
\* cooldown apart (5.0 s, 10.0 s under water), however long the exclusion
\* lasts and however many polls fall between them.
C4_DecisionsApartByCooldown ==
    \A i \in 1..(Len(decisions) - 1) :
        decisions[i + 1] - decisions[i] >
            (IF script = "somatic_sub.py" THEN SubCooldown ELSE PilotCooldown)

\* two decisions were triggered within one unbroken run of exclusion polls
C4_Witness ==
    /\ pc = "poll"
    /\ excl_since >= 0
    /\ excl_count >= 2
    /\ Len(decisions) >= 2
    /\ decisions[Len(decisions) - 1] >= excl_since

\* C5, as the specification states it: when the exclusion holds over
\* consecutive polls spanning a time T, the number of manifests produced in
\* the span differs from floor(T / C) by at most 1.
C5_ManifestCountWithinOne ==
    (pc = "poll" /\ excl_since >= 0) =>
        LET T == snapshot.t - excl_since
            C == IF script = "somatic_sub.py" THEN SubCooldown ELSE PilotCooldown
        IN  /\ excl_count <= (T \div C) + 1
            /\ excl_count >= (T \div C) - 1

\* C5, as the code has it: the count is at most floor(T / C) + 1, and at
\* least floor(T / (C + L + 0.1 s)), L the time a reasoning call takes.
C5_ManifestCountBounds ==
    (pc = "poll" /\ excl_since >= 0) =>
        LET T == snapshot.t - excl_since
            C == IF script = "somatic_sub.py" THEN SubCooldown ELSE PilotCooldown
        IN  /\ excl_count <= (T \div C) + 1
            /\ excl_count >= T \div (C + latency + PollInterval)

\* an exclusion that has lasted more than four cooldowns, with reasoning calls
\* that take time, has produced fewer than floor(T / C) - 1 manifests
C5_Witness ==
    /\ pc = "poll"
    /\ excl_since >= 0
    /\ latency > 0
    /\ snapshot.t - excl_since > 4 * PilotCooldown
    /\ excl_count >= 2
    /\ excl_count < ((snapshot.t - excl_since) \div PilotCooldown) - 1

C7_UnderwaterScenario ==
    LET first == Epoch + AcousticLossStart + HeartbeatTimeout
        last == Epoch + AcousticLossEnd + HeartbeatTimeout
    IN  /\ now > first + MockPeriod => Len(decisions) >= 1
        /\ Len(decisions) >= 1 =>
              /\ decisions[1] >= first - MockPeriod
              /\ decisions[1] <= first + MockPeriod
        /\ Len(decisions) >= 2 =>
              /\ decisions[2] - decisions[1] > SubCooldown
              /\ decisions[2] >= first + SubCooldown - MockPeriod
        /\ \A i \in 1..Len(decisions) : decisions[i] <= last
        /\ \A name \in DOMAIN inventory :
              /\ inventory[name].trajectory_context.anomaly_type
                     = "ACOUSTIC_LINK_LOSS"
              /\ inventory[name].is_dark_window
              /\ inventory[name].timestamp <= last
              /\ \E i \in 1..Len(decisions) :
                     inventory[name].timestamp = decisions[i]

\* the scenario has run past t = 53 s: two manifests were written during the
\* loss, heartbeats are processed again
C7_Witness ==
    /\ script = "somatic_sub.py"
    /\ now > Epoch + AcousticLossEnd + HeartbeatTimeout
    /\ pc = "poll"
    /\ ~is_blackout
    /\ last_heartbeat >= Epoch + AcousticLossEnd
    /\ written >= 2
    /\ Len(decisions) = written

\* C8: for every manifest a loop has persisted, the sha256 of the manifest
\* serialised with sorted keys and sha256_proof cleared is the stored
\* sha256_proof; nothing changes between the proof and the write.
C8_StoredProofRecomputes ==
    \A name \in DOMAIN inventory :
        inventory[name].sha256_proof =
            Sha256(JsonDumpsSorted(
                [inventory[name] EXCEPT !.sha256_proof = EmptyProof]))

\* a manifest holding a model's reasoning and one holding the fallback have
\* been persisted
C8_Witness ==
    /\ written >= 2
    /\ HAS_MLX
    /\ \E name \in DOMAIN inventory :
          /\ inventory[name].agent_reasoning = backend.value
          /\ inventory[name].sha256_proof # EmptyProof
          /\ inventory[name].trajectory_context.telemetry_at_decision.is_blackout

\* C9: when the backend is unavailable, fails to load, raises during
\* generation or returns text that does not parse, generate_manifest returns
\* (the cycle goes on) and every manifest holds the fallback payload:
\* actuator_command HOLD_POSITION, risk_level HIGH.
C9_BackendFailureGivesFallback ==
    (~HAS_MLX \/ ~backend.load_ok \/ backend.raises \/ ~backend.valid) =>
        /\ pc # "crashed"
        /\ Len(decisions) > written => pc \in {"reason", "io_error"}
        /\ \A name \in DOMAIN inventory :
              LET reasoning == inventory[name].agent_reasoning
              IN  /\ reasoning.decision.actuator_command
                         = JsonStr(<<W("HOLD_POSITION")>>)
                  /\ reasoning.mission_assurance_check.risk_level = "HIGH"
                  /\ reasoning.cognitive_load = 85

\* a backend that is installed and loads but returns unparseable text, after a
\* decision has been made with it
C9_Witness ==
    /\ HAS_MLX
    /\ backend.load_ok
    /\ is_loaded
    /\ ~backend.raises
    /\ ~backend.valid
    /\ written >= 1
    /\ pc = "poll"

\* C10: no outcome of the backend ends the loop: every triggered cycle writes
\* its manifest, calls the command translator, sets last_decision_time and
\* goes on to the next poll (storage that fails is not an outcome of the
\* backend and is left aside).
C10_DecisionAlwaysCompletes ==
    [][((PilotDecide \/ SubDecide) /\ pc' # "io_error") =>
           /\ written' = written + 1
           /\ last_decision_time' = now
           /\ pc' = "poll"]_vars

\* C11: in a triggered cycle the manifest is written before the command
\* translator is called: a command is sent, and last_decision_time set, only
\* in a cycle that has persisted its manifest; when the write fails the error
\* leaves the cycle, no command is sent and last_decision_time stays.
C11_DispatchOnlyAfterPersist ==
    [][(PilotDecide \/ SubDecide) =>
           /\ pc' = "io_error" =>
                  /\ outbound' = outbound
                  /\ last_decision_time' = last_decision_time
                  /\ inventory' = inventory
           /\ (outbound' # outbound \/ last_decision_time' # last_decision_time) =>
                  /\ written' = written + 1
                  /\ \E name \in DOMAIN inventory' :
                           inventory'[name].trajectory_context.timestep_of_decision
                               = snapshot.t]_vars

\* a decision was persisted and its command sent; the write of a later one
\* failed
C11_Witness ==
    /\ pc = "io_error"
    /\ written >= 1
    /\ Len(decisions) > written
    /\ outbound # <<>>
    /\ last_decision_time > 0

\* C12: execute_decision matches the command, whatever its case, against
\* the intents in the order SWITCH_MODE, EMERGENCY_LAND,
\* SUN_SAFE_ATTITUDE/MAINTAIN_STABILITY, STOP/HOVER/HOLD_POSITION,
\* RC_OVERRIDE, no match, and the earliest intent in this order whose keyword
\* the command contains alone determines what is sent: a command with
\* EMERGENCY_LAND and no SWITCH_MODE requests LAND whatever else it contains.
C12_FirstIntentInClaimedOrder ==
    (script = "sovereign_pilot.py" /\ pc = "dispatched") =>
        LET cmd == Upper(Command)
            mode(name) == <<[send |-> "set_mode", mode |-> name]>>
        IN  IF In("SWITCH_MODE", cmd)
            THEN outbound = <<>> \/ (Len(outbound) = 1 /\ outbound[1].send = "set_mode")
            ELSE IF In("EMERGENCY_LAND", cmd)
            THEN outbound = mode("LAND")
            ELSE IF In("SUN_SAFE_ATTITUDE", cmd) \/ In("MAINTAIN_STABILITY", cmd)
            THEN outbound = mode("ALT_HOLD")
            ELSE IF In("STOP", cmd) \/ In("HOVER", cmd) \/ In("HOLD_POSITION", cmd)
            THEN outbound \in {mode("ALT_HOLD"), mode("LOITER")}
            ELSE IF In("RC_OVERRIDE", cmd)
            THEN outbound = <<>>
                 \/ (Len(outbound) = 1 /\ outbound[1].send = "rc_channels_override")
            ELSE outbound = <<>>

\* C13: for a command whose selected intent is STOP/HOVER/HOLD_POSITION,
\* execute_decision requests LOITER if and only if the bridge's gps_fix is at
\* least 3, and requests ALT_HOLD when it is below 3.
C13_HoldModeFollowsGpsFix ==
    (script = "sovereign_pilot.py" /\ pc = "dispatched") =>
        LET cmd == Upper(Command)
        IN  (/\ ~In("SWITCH_MODE", cmd)
             /\ ~In("EMERGENCY_LAND", cmd)
             /\ ~In("SUN_SAFE_ATTITUDE", cmd)
             /\ ~In("MAINTAIN_STABILITY", cmd)
             /\ In("STOP", cmd) \/ In("HOVER", cmd) \/ In("HOLD_POSITION", cmd)) =>
                /\ outbound = <<[send |-> "set_mode", mode |-> "LOITER"]>>
                       <=> telemetry.gps_fix >= 3
                /\ telemetry.gps_fix < 3 =>
                       outbound = <<[send |-> "set_mode", mode |-> "ALT_HOLD"]>>
C13_Witness ==
    /\ script = "sovereign_pilot.py"
    /\ pc = "dispatched"
    /\ Command = <<W("HOLD_POSITION")>>
    /\ telemetry.gps_fix = 2
    /\ outbound = <<[send |-> "set_mode", mode |-> "ALT_HOLD"]>>

\* C14: in the underwater loop as in the fixed-wing/rover loop, a decision
\* whose actuator_command contains STOP, HOVER or HOLD_POSITION, the fallback
\* decision HOLD_POSITION in particular, makes the loop send a hold-type mode
\* request (LOITER, BRAKE or ALT_HOLD) to the vehicle.
C14_HoldCommandSendsHoldMode ==
    (pc = "poll" /\ written >= 1) =>
        \A name \in DOMAIN inventory :
            LET cmd == Upper(inventory[name].agent_reasoning.decision.actuator_command.words)
            IN  (In("STOP", cmd) \/ In("HOVER", cmd) \/ In("HOLD_POSITION", cmd)) =>
                    \E i \in 1..Len(outbound) :
                        /\ outbound[i].send = "set_mode"
                        /\ outbound[i].mode \in {"LOITER", "BRAKE", "ALT_HOLD"}

\* C15: for a command whose selected intent is RC_OVERRIDE, execute_decision
\* sends an actuator override if and only if RC_OVERRIDE is followed by
\* exactly four integers; otherwise nothing is sent.
C15_OverrideIffFourArguments ==
    (script = "sovereign_pilot.py" /\ pc = "dispatched") =>
        LET cmd == Upper(Command)
            FourFollow(i) ==
                /\ cmd[i].text = "RC_OVERRIDE"
                /\ i + 4 <= Len(cmd)
                /\ \A j \in (i + 1)..(i + 4) : cmd[j].isdigit
                /\ i + 5 <= Len(cmd) => ~cmd[i + 5].isdigit
        IN  (/\ ~In("SWITCH_MODE", cmd)
             /\ ~In("EMERGENCY_LAND", cmd)
             /\ ~In("SUN_SAFE_ATTITUDE", cmd)
             /\ ~In("MAINTAIN_STABILITY", cmd)
             /\ ~In("STOP", cmd)
             /\ ~In("HOVER", cmd)
             /\ ~In("HOLD_POSITION", cmd)
             /\ In("RC_OVERRIDE", cmd)) =>
                IF \E i \in 1..Len(cmd) : FourFollow(i)
                THEN /\ Len(outbound) = 1
                     /\ outbound[1].send = "rc_channels_override"
                ELSE outbound = <<>>

\* C16: for a command 'RC_OVERRIDE a b c d' the four integers are applied in
\* the channel order roll, pitch, throttle, yaw: channels 1 to 4 of the
\* override carry a, b, c, d.
C16_ChannelsInCommandOrder ==
    (/\ script = "sovereign_pilot.py"
     /\ pc = "dispatched"
     /\ Len(Command) = 5
     /\ Command[1] = W("RC_OVERRIDE")
     /\ \A j \in 2..5 : Command[j].isdigit) =>
        outbound = <<[send |-> "rc_channels_override",
                      channels |-> <<Command[2].value, Command[3].value,
                                     Command[4].value, Command[5].value,
                                     0, 0, 0, 0>>]>>

\* C17: a decision cycle of the fixed-wing/rover loop whose command makes
\* execute_decision call set_mode with a name absent from the vehicle's mode
\* table sends nothing and leaves telemetry, last_heartbeat and is_blackout
\* as they were; the cycle still sets last_decision_time and the loop goes on
\* to the next poll.
C17_UnknownModeHasNoEffect ==
    [][(/\ PilotDecide
        /\ written' = written + 1
        /\ \E name \in DOMAIN inventory' :
              /\ inventory'[name].trajectory_context.timestep_of_decision = snapshot.t
              /\ HasCommand(inventory'[name].agent_reasoning)
              /\ LET command == inventory'[name].agent_reasoning.decision.actuator_command
                 IN  /\ command.type = "str"
                     /\ In("SWITCH_MODE", Upper(command.words))
                     /\ LET target_mode ==
                                AfterLast(Upper(command.words), "SWITCH_MODE",
                                          Len(command.words))
                        IN  /\ ~In("HEADING_HOLD", target_mode)
                            /\ ~In("ALT_HOLD", target_mode)
                            /\ ~In("LAND", target_mode)
                            /\ ~In("STABILIZE", target_mode)
                            /\ \A mode \in ModeMapping("copter") :
                                  Texts(target_mode) # <<mode>>)
           => /\ outbound' = outbound
              /\ telemetry' = telemetry
              /\ last_heartbeat' = last_heartbeat
              /\ is_blackout' = is_blackout
              /\ last_decision_time' = now
              /\ pc' = "poll"
              /\ wake' = now + PollInterval]_vars
C17_Witness ==
    /\ script = "sovereign_pilot.py"
    /\ pc = "poll"
    /\ written >= 1
    /\ last_decision_time >= Epoch
    /\ outbound = <<>>
    /\ \E name \in DOMAIN inventory :
          inventory[name].agent_reasoning.decision.actuator_command
              = JsonStr(<<W("SWITCH_MODE"), W("WARP")>>)

\* The fields of the telemetry that belong to a message type
FieldsOf(type) ==
    CASE type = "HEARTBEAT" -> {"mode"}
      [] type = "SYS_STATUS" -> {"battery_v", "battery_pct"}
      [] type = "GPS_RAW_INT" -> {"gps_fix", "sat_count"}
      [] type = "ATTITUDE" -> {"pitch", "roll", "yaw"}
      [] type = "VFR_HUD" -> {"alt"}
      [] OTHER -> {}

C19_LinkDownUntilFirstHeartbeat ==
    (pc = "client" /\ last_heartbeat = 0) =>
        /\ is_blackout
        /\ snapshot.t >= Epoch => snapshot.is_blackout

\* C20: in every decision of the fixed-wing/rover loop, anomaly_type is
\* 503_CONJUNCTION_BLACKOUT whenever the snapshot's is_blackout is true, also
\* when gps_fix < 3 holds at the same time, and GNSS_DENIED_NAVIGATION only
\* when is_blackout is false and gps_fix < 3; the reasoning engine is given
\* the anomaly_type that trajectory_context records.
C20_AnomalyFollowsBlackout ==
    script = "sovereign_pilot.py" =>
        \A name \in DOMAIN inventory :
            LET context == inventory[name].trajectory_context
                reasoning == inventory[name].agent_reasoning
                snap == context.telemetry_at_decision
            IN  /\ snap.is_blackout =>
                       context.anomaly_type = "503_CONJUNCTION_BLACKOUT"
                /\ ~snap.is_blackout =>
                       /\ context.anomaly_type = "GNSS_DENIED_NAVIGATION"
                       /\ snap.perception.gps_fix < 3
                /\ inventory[name].is_dark_window = snap.is_blackout
                /\ ("sensory_synthesis" \in DOMAIN reasoning
                        /\ Len(reasoning.sensory_synthesis.interpretation) = 5) =>
                       reasoning.sensory_synthesis.interpretation[4]
                           = context.anomaly_type
C20_Witness ==
    /\ script = "sovereign_pilot.py"
    /\ \E name \in DOMAIN inventory :
          LET context == inventory[name].trajectory_context
              reasoning == inventory[name].agent_reasoning
          IN  /\ context.telemetry_at_decision.is_blackout
              /\ context.telemetry_at_decision.perception.gps_fix < 3
              /\ context.anomaly_type = "503_CONJUNCTION_BLACKOUT"
              /\ "sensory_synthesis" \in DOMAIN reasoning
              /\ Len(reasoning.sensory_synthesis.interpretation) = 5
              /\ reasoning.sensory_synthesis.interpretation[4]
                     = "503_CONJUNCTION_BLACKOUT"

C22_SwitchModeByExactName ==
    (script = "sovereign_pilot.py" /\ pc = "dispatched") =>
        LET cmd == Upper(Command)
            mode(name) == <<[send |-> "set_mode", mode |-> name]>>
        IN  \A k \in 1..Len(cmd) :
                (/\ cmd[k].text = "SWITCH_MODE"
                 /\ \A j \in (k + 1)..Len(cmd) : cmd[j].text # "SWITCH_MODE") =>
                    LET name == Texts(SubSeq(cmd, k + 1, Len(cmd)))
                    IN  outbound =
                            IF name \in {<<"HEADING_HOLD">>, <<"ALT_HOLD">>}
                            THEN mode("ALT_HOLD")
                            ELSE IF name = <<"LAND">>
                            THEN mode("LAND")
                            ELSE IF name = <<"STABILIZE">>
                            THEN mode("STABILIZE")
                            ELSE IF Len(name) = 1 /\ name[1] \in ModeMapping("copter")
                            THEN mode(name[1])
                            ELSE <<>>

\* C22: for a command whose selected intent is SWITCH_MODE, with <name> the
\* upper-cased text after the last SWITCH_MODE, execute_decision requests
\* ALT_HOLD when <name> contains HEADING_HOLD or ALT_HOLD, else LAND when it
\* contains LAND, else STABILIZE when it contains STABILIZE, and otherwise
\* calls set_mode with <name>; one set_mode call is made in each case, so at
\* most one message is sent, and none when the name is not in the mode table.
C22_SwitchModeByContainedAlias ==
    (script = "sovereign_pilot.py" /\ pc = "dispatched") =>
        LET cmd == Upper(Command)
            mode(name) == <<[send |-> "set_mode", mode |-> name]>>
        IN  \A k \in 1..Len(cmd) :
                (/\ cmd[k].text = "SWITCH_MODE"
                 /\ \A j \in (k + 1)..Len(cmd) : cmd[j].text # "SWITCH_MODE") =>
                    LET target == SubSeq(cmd, k + 1, Len(cmd))
                        name == Texts(target)
                    IN  outbound =
                            IF In("HEADING_HOLD", target) \/ In("ALT_HOLD", target)
                            THEN mode("ALT_HOLD")
                            ELSE IF In("LAND", target)
                            THEN mode("LAND")
                            ELSE IF In("STABILIZE", target)
                            THEN mode("STABILIZE")
                            ELSE IF Len(name) = 1 /\ name[1] \in ModeMapping("copter")
                            THEN mode(name[1])
                            ELSE <<>>
C22_Witness ==
    /\ script = "sovereign_pilot.py"
    /\ pc = "dispatched"
    /\ Command = <<W("HOVER"), W("SWITCH_MODE"), W("emergency_land")>>
    /\ outbound = <<[send |-> "set_mode", mode |-> "LAND"]>>

\* C23: every triggered decision creates one new manifest file named by its
\* mission_id, and a file once written is never overwritten, modified or
\* deleted by a later decision: whenever the loop is back at its poll, there
\* are as many files as triggered decisions, and every file holds the
\* manifest first written to it.
C23_ManifestsAreWrittenOnce ==
    [][/\ \A name \in DOMAIN inventory :
             /\ name \in DOMAIN inventory'
             /\ inventory'[name] = inventory[name]
       /\ pc' = "poll" => Cardinality(DOMAIN inventory') = Len(decisions')]_vars

\* C24: neither translator issues an actuator override by default: an
\* override is sent only by execute_decision, for a command that contains
\* RC_OVERRIDE and four integers, and never for the fallback command
\* HOLD_POSITION or a command holding the keyword of a mode-type intent;
\* execute_sub_decision never sends one.
C24_OverrideOnlyOnRequest ==
    (pc = "dispatched"
        /\ \E i \in 1..Len(outbound) : outbound[i].send = "rc_channels_override") =>
        LET cmd == Upper(Command)
        IN  /\ script = "sovereign_pilot.py"
            /\ \E i \in 1..Len(cmd) : cmd[i].text = "RC_OVERRIDE"
            /\ Cardinality({i \in 1..Len(cmd) : cmd[i].isdigit}) = 4
            /\ Len(outbound) = 1
            /\ \A i \in 1..Len(cmd) :
                  cmd[i].text \notin
                      {"SWITCH_MODE", "SUN_SAFE_ATTITUDE", "MAINTAIN_STABILITY",
                       "EMERGENCY_LAND", "STOP", "NONSTOP", "HOVER", "HOLD_POSITION"}
C24_Witness ==
    /\ script = "sovereign_pilot.py"
    /\ pc = "dispatched"
    /\ Command = <<W("RC_OVERRIDE"), N(1400), N(1600), N(1200), N(1500)>>
    /\ Len(outbound) = 1
    /\ outbound[1].send = "rc_channels_override"

\* C25: the fallback payload depends on (anomaly, isolation) alone: in a run
\* that reasons by fallback, two manifests with the same anomaly and the
\* same isolation flag hold equal payloads, whatever their telemetry, their
\* time, the agent's load state and the calls before; the payload names the
\* anomaly and the link state it was given, and a call of the fallback
\* leaves the agent's state as it was.
C25_FallbackIsPure ==
    [][((PilotDecide \/ SubDecide)
            /\ (~HAS_MLX \/ ~backend.load_ok \/ backend.raises \/ ~backend.valid)) =>
          /\ \A n1 \in DOMAIN inventory', n2 \in DOMAIN inventory' :
                (/\ inventory'[n1].trajectory_context.anomaly_type
                        = inventory'[n2].trajectory_context.anomaly_type
                 /\ inventory'[n1].is_dark_window = inventory'[n2].is_dark_window) =>
                    inventory'[n1].agent_reasoning = inventory'[n2].agent_reasoning
          /\ \A name \in DOMAIN inventory' :
                LET reasoning == inventory'[name].agent_reasoning
                IN  /\ reasoning.sensory_synthesis.interpretation[4]
                           = inventory'[name].trajectory_context.anomaly_type
                    /\ reasoning.sensory_synthesis.inputs[3]
                           = (IF inventory'[name].is_dark_window
                              THEN "LINK_STATUS_BLACKOUT" ELSE "LINK_STABLE")
          /\ ~HAS_MLX => is_loaded' = is_loaded]_vars
C25_Witness ==
    /\ ~HAS_MLX
    /\ written >= 2
    /\ \E n1 \in DOMAIN inventory, n2 \in DOMAIN inventory :
          /\ inventory[n1].trajectory_context.telemetry_at_decision
                 # inventory[n2].trajectory_context.telemetry_at_decision
          /\ inventory[n1].agent_reasoning = inventory[n2].agent_reasoning
          /\ inventory[n1].agent_reasoning.decision.actuator_command
                 = JsonStr(<<W("HOLD_POSITION")>>)

\* C26: in every manifest persisted by either loop, is_dark_window equals
\* the is_blackout flag of the snapshot stored as telemetry_at_decision, and
\* epistemic_status is 503_BLACKOUT exactly when is_dark_window is true and
\* NOMINAL_LINK otherwise.
C26_IsolationFieldsAgree ==
    \A name \in DOMAIN inventory :
        /\ inventory[name].is_dark_window
               = inventory[name].trajectory_context.telemetry_at_decision.is_blackout
        /\ inventory[name].epistemic_status
               = (IF inventory[name].is_dark_window
                  THEN "503_BLACKOUT" ELSE "NOMINAL_LINK")
C26_Witness ==
    \E n1 \in DOMAIN inventory, n2 \in DOMAIN inventory :
        /\ inventory[n1].is_dark_window
        /\ inventory[n1].epistemic_status = "503_BLACKOUT"
        /\ inventory[n1].trajectory_context.telemetry_at_decision.is_blackout
        /\ ~inventory[n2].is_dark_window
        /\ inventory[n2].epistemic_status = "NOMINAL_LINK"

\* C27: on startup with a healthy link the fixed-wing/rover loop triggers no
\* decision before the first GPS_RAW_INT message has been processed (until
\* then the bridge holds sat_count 0, which the vehicle never reports): the
\* default gps_fix is not taken for a fix below 3.
C27_NoDecisionBeforeFirstGpsMessage ==
    (script = "sovereign_pilot.py" /\ pc = "reason" /\ ~snapshot.is_blackout) =>
        snapshot.perception.sats # 0

\* C28: a triggered decision cycle sends at most one message to the
\* vehicle, and none when its command matches no intent; the commands sent
\* never outnumber the manifests persisted.
C28_AtMostOneCommandPerDecision ==
    [][(PilotDecide \/ SubDecide) =>
          /\ Len(outbound') <= Len(outbound) + 1
          /\ SubSeq(outbound', 1, Len(outbound)) = outbound
          /\ Len(outbound') <= written'
          /\ (\E name \in DOMAIN inventory' :
                 /\ inventory'[name].trajectory_context.timestep_of_decision = snapshot.t
                 /\ HasCommand(inventory'[name].agent_reasoning)
                 /\ inventory'[name].agent_reasoning.decision.actuator_command
                        = JsonStr(<<W("CONTINUE_MISSION")>>)) =>
                outbound' = outbound]_vars
C28_Witness ==
    /\ pc = "poll"
    /\ written >= 2
    /\ Len(outbound) = written
    /\ outbound[1].send = "rc_channels_override"

====
